---- MODULE Spec2Model ----
(***************************************************************************)
(* A model of src/src/mcp_roblox_demo/server.py: the request executor      *)
(* make_roblox_request, the operation poller poll_for_results and the tool *)
(* update_script, run as one asyncio task against a remote API that may    *)
(* answer every request with any status and any body, or not at all.       *)
(*                                                                         *)
(* One run of the model is one call of one of the three functions          *)
(* (variable entry).  Every coroutine has a program counter; a step of the *)
(* model is the code between two suspension points of that coroutine.      *)
(***************************************************************************)
EXTENDS Integers, Sequences, FiniteSets, TLC

VARIABLES
    entry,          \* the function the caller invoked
    env_key,        \* os.getenv("ROBLOX_API_KEY"): [set, val]
    us_pc,          \* update_script: position
    operation_path, \* update_script: local operation_path, passed to poll_for_results
    outcome,        \* the string update_script returned ("" before it returns)
    exc,            \* the exception propagating up the call stack ("" if none)
    poll_pc,        \* poll_for_results: position
    poll_i,         \* poll_for_results: iterations of the for loop begun
    retries,        \* poll_for_results: parameter retries
    poll_ret,       \* poll_for_results: the value returned
    rq_pc,          \* make_roblox_request: position
    rq_method,      \* make_roblox_request: parameter method
    rq_url,         \* make_roblox_request: parameter url
    rq_exc,         \* make_roblox_request: exception raised inside the try
    rq_ret,         \* make_roblox_request: the value returned
    clientOpen,     \* number of httpx.AsyncClient objects open
    net,            \* what the network gave for the request in flight
    stdout,         \* the last diagnostic line printed
    patches,        \* PATCH requests put on the wire
    gets,           \* GET requests put on the wire
    sleeps,         \* asyncio.sleep(delay) calls made
    notDone,        \* history: poll attempts answered by a mapping that is not done
    suspended       \* the frames of a second invocation of update_script, not running now

vars == <<entry, env_key, suspended, us_pc, operation_path, outcome, exc,
          poll_pc, poll_i, retries, poll_ret, rq_pc, rq_method, rq_url, rq_exc, rq_ret,
          clientOpen, net, stdout, patches, gets, sleeps, notDone>>

usVars   == <<us_pc, operation_path, outcome>>
pollVars == <<poll_pc, poll_i, retries, poll_ret>>
rqVars   == <<rq_pc, rq_method, rq_url, rq_exc, rq_ret, clientOpen, net, stdout>>
wire     == <<patches, gets>>

----------------------------------------------------------------------------
(* Bounds and program constants *)

\* largest retries argument tried when poll_for_results is called directly
MaxRetries == 3

\* poll_for_results(..., retries: int = 10, ...)
DefaultRetries == 10

----------------------------------------------------------------------------
(* JSON values nested in a mapping, and Python's view of them *)

JAbsent == [t |-> "absent", k |-> "", v |-> ""]
JNull == [t |-> "null", k |-> "", v |-> ""]
JBool(b) == [t |-> "bool", k |-> "", v |-> IF b THEN "true" ELSE "false"]
JStr(s) == [t |-> "str", k |-> "", v |-> s]
JObj(key, val) == [t |-> "obj", k |-> key, v |-> val]

\* bool(x) of a value held in a mapping
JTruthy(x) ==
    CASE x.t = "bool" -> x.v = "true"
      [] x.t = "str"  -> x.v # ""
      [] x.t = "obj"  -> TRUE
      [] OTHER        -> FALSE

\* str(x), as an f-string formats it
PyStr(x) ==
    CASE x.t = "bool" -> (IF x.v = "true" THEN "True" ELSE "False")
      [] x.t = "str"  -> x.v
      [] x.t = "obj"  -> "{'" \o x.k \o "': '" \o x.v \o "'}"
      [] OTHER        -> "None"

----------------------------------------------------------------------------
(* Python values make_roblox_request can return: None, a dict, a list *)

NoneVal ==
    [t |-> "None", n |-> 0, path |-> JAbsent, done |-> JAbsent,
     response |-> JAbsent, error |-> JAbsent, other |-> FALSE]

Dict(p, d, r, e, o) ==
    [t |-> "dict", n |-> 0, path |-> p, done |-> d,
     response |-> r, error |-> e, other |-> o]

List(len) ==
    [t |-> "list", n |-> len, path |-> JAbsent, done |-> JAbsent,
     response |-> JAbsent, error |-> JAbsent, other |-> FALSE]

Field(d, key) ==
    CASE key = "path"     -> d.path
      [] key = "done"     -> d.done
      [] key = "response" -> d.response
      [] key = "error"    -> d.error

\* key in d
Has(d, key) == d.t = "dict" /\ Field(d, key) # JAbsent

\* d.get(key)
Get(d, key) == IF Has(d, key) THEN Field(d, key) ELSE JNull

\* bool(v): None, {} and [] are falsy
Truthy(v) ==
    CASE v.t = "None" -> FALSE
      [] v.t = "dict" -> (v.other \/ \E key \in {"path", "done", "response", "error"} : Has(v, key))
      [] v.t = "list" -> v.n > 0

\* hasattr(v, "get"): only a mapping has the method
HasGet(v) == v.t = "dict"

----------------------------------------------------------------------------
(* The remote side *)

PathValues == {JAbsent, JNull, JStr(""), JStr("operations/123")}
DoneValues == {JAbsent, JBool(FALSE), JBool(TRUE)}
ResponseValues == {JAbsent, JObj("status", "ok")}
ErrorValues == {JAbsent, JObj("code", "INTERNAL")}

\* what a body that is valid JSON parses to
JsonValues ==
    {Dict(p, d, r, e, o) : p \in PathValues, d \in DoneValues,
                           r \in ResponseValues, e \in ErrorValues, o \in BOOLEAN}
    \cup {List(0), List(1), NoneVal}

\* a response body: valid JSON, or text that is not JSON (an empty body too)
Bodies == {[valid |-> TRUE, json |-> j] : j \in JsonValues}
          \cup {[valid |-> FALSE, json |-> NoneVal]}

Statuses == {200, 301, 404, 500}

NoNet == [kind |-> "none", status |-> 0, body |-> [valid |-> FALSE, json |-> NoneVal]]

\* httpx: Response.is_success
IsSuccess(status) == status >= 200 /\ status <= 299

\* bodies sent with a status that is not 2xx: one that would count as a
\* finished operation had the status been 200, and one that is not JSON
ErrorBodies ==
    {[valid |-> TRUE,
      json |-> Dict(JStr("operations/123"), JBool(TRUE), JObj("status", "ok"), JAbsent, FALSE)],
     [valid |-> FALSE, json |-> NoneVal]}

\* what awaiting client.get / client.patch can end with
NetOutcomes ==
    {[kind |-> "response", status |-> s, body |-> b] :
        s \in {x \in Statuses : IsSuccess(x)}, b \in Bodies}
    \cup {[kind |-> "response", status |-> s, body |-> b] :
        s \in {x \in Statuses : ~IsSuccess(x)}, b \in ErrorBodies}
    \cup {[kind |-> k, status |-> 0, body |-> NoNet.body] : k \in {"fault", "timeout"}}

\* The answers considered when two invocations run side by side: a handle, a
\* second handle, a finished operation, and a transport fault.
PairOutcomes ==
    {[kind |-> "response", status |-> 200,
      body |-> [valid |-> TRUE, json |-> Dict(JStr(p), JAbsent, JAbsent, JAbsent, FALSE)]] :
        p \in {"operations/123", "operations/456"}}
    \cup {[kind |-> "response", status |-> 200,
           body |-> [valid |-> TRUE,
                     json |-> Dict(JAbsent, JBool(TRUE), JObj("status", "ok"), JAbsent, FALSE)]],
          [kind |-> "fault", status |-> 0, body |-> NoNet.body]}

----------------------------------------------------------------------------
(* Frames of an invocation *)

\* The frames of the running invocation: its locals, its position, and the
\* requests and sleeps counted for it.
Frames ==
    [us_pc |-> us_pc, operation_path |-> operation_path, outcome |-> outcome,
     exc |-> exc, poll_pc |-> poll_pc, poll_i |-> poll_i, retries |-> retries,
     poll_ret |-> poll_ret, rq_pc |-> rq_pc, rq_method |-> rq_method,
     rq_url |-> rq_url, rq_exc |-> rq_exc, rq_ret |-> rq_ret,
     clientOpen |-> clientOpen, net |-> net, patches |-> patches, gets |-> gets,
     sleeps |-> sleeps, notDone |-> notDone]

\* no second invocation
NoFrames ==
    [us_pc |-> "idle", operation_path |-> "", outcome |-> "",
     exc |-> "", poll_pc |-> "idle", poll_i |-> 0, retries |-> DefaultRetries,
     poll_ret |-> NoneVal, rq_pc |-> "idle", rq_method |-> "",
     rq_url |-> "", rq_exc |-> "", rq_ret |-> NoneVal,
     clientOpen |-> 0, net |-> NoNet, patches |-> 0, gets |-> 0,
     sleeps |-> 0, notDone |-> 0]

\* a second invocation of update_script that has not run yet
NewFrames == [NoFrames EXCEPT !.us_pc = "start"]

\* what the remote may answer in this run
Remote == IF suspended = NoFrames THEN NetOutcomes ELSE PairOutcomes

----------------------------------------------------------------------------
(* Messages of update_script *)

MsgNoKey == "Error: Roblox Open Cloud API Key is required."
MsgInitFailed == "Error: Failed to initiate script update."
MsgNoPath == "Error: Operation path not found in PATCH response."
MsgSuccess(r) == "Script updated successfully! Final Response: " \o PyStr(r)
MsgError(e) == "Script update failed. Error: " \o PyStr(e)
MsgNoData == "Script update operation completed, but no response data found."
MsgTimedOut == "Script update operation did not complete within the allowed time."
MsgPollFailed == "Error: Failed to poll for script update status."

----------------------------------------------------------------------------
(* URLs *)

ROBLOX_API_BASE == "https://apis.roblox.com/cloud/v2"

\* f"{ROBLOX_API_BASE}/{operation_path}"
PollUrl(path) == ROBLOX_API_BASE \o "/" \o path

\* f"{ROBLOX_API_BASE}/universes/{universe_id}/places/{place_id}/instances/{instance_id}"
\* for the arguments of the call: universe 1, place 2, instance "abc"
PatchUrl == ROBLOX_API_BASE \o "/universes/" \o "1" \o "/places/" \o "2" \o "/instances/" \o "abc"

----------------------------------------------------------------------------
(* make_roblox_request *)

Methods == {"GET", "get", "PATCH", "Patch", "DELETE", "POST"}

\* method.upper()
Upper(m) ==
    CASE m \in {"GET", "get"}     -> "GET"
      [] m \in {"PATCH", "Patch"} -> "PATCH"
      [] OTHER                    -> m

Supported(m) == Upper(m) \in {"GET", "PATCH"}

\* A call: the callee's frame is set up, nothing has run yet.
CallRequest(m, url) ==
    /\ rq_pc' = "enter"
    /\ rq_method' = m
    /\ rq_url' = url
    /\ rq_exc' = ""
    /\ rq_ret' = NoneVal
    /\ net' = NoNet
    /\ UNCHANGED <<clientOpen, stdout>>

\* The caller has taken the callee's result: the frame is gone.
DropRequest ==
    /\ rq_pc' = "idle"
    /\ rq_method' = ""
    /\ rq_url' = ""
    /\ rq_exc' = ""
    /\ rq_ret' = NoneVal
    /\ net' = NoNet
    /\ UNCHANGED <<clientOpen, stdout>>

\* async with httpx.AsyncClient() as client: try:
Rq_Enter ==
    /\ rq_pc = "enter"
    /\ clientOpen' = clientOpen + 1
    /\ rq_pc' = "try"
    /\ UNCHANGED <<rq_method, rq_url, rq_exc, rq_ret, net, stdout>>
    /\ UNCHANGED <<entry, env_key, suspended, exc, wire, sleeps, notDone>>
    /\ UNCHANGED <<usVars, pollVars>>

\* The if / elif / else on method.upper(): "GET" and "PATCH" put a request on
\* the wire and suspend, anything else raises ValueError inside the try.
DispatchMethod(m) ==
    CASE Upper(m) = "GET"   -> [pc |-> "inflight", get |-> 1, patch |-> 0, exc |-> ""]
      [] Upper(m) = "PATCH" -> [pc |-> "inflight", get |-> 0, patch |-> 1, exc |-> ""]
      [] OTHER              -> [pc |-> "except", get |-> 0, patch |-> 0, exc |-> "ValueError"]

Rq_Dispatch ==
    /\ rq_pc = "try"
    /\ LET d == DispatchMethod(rq_method) IN
         /\ rq_pc' = d.pc
         /\ rq_exc' = d.exc
         /\ gets' = gets + d.get
         /\ patches' = patches + d.patch
    /\ UNCHANGED <<rq_method, rq_url, rq_ret, clientOpen, net, stdout>>
    /\ UNCHANGED <<entry, env_key, suspended, exc, sleeps, notDone>>
    /\ UNCHANGED <<usVars, pollVars>>

\* The awaited client.get / client.patch ends: a response with some status and
\* body, a transport fault, or the 30 s timeout.
Net_Respond ==
    /\ rq_pc = "inflight"
    /\ \E o \in Remote : net' = o
    /\ rq_pc' = "got"
    /\ UNCHANGED <<rq_method, rq_url, rq_exc, rq_ret, clientOpen, stdout>>
    /\ UNCHANGED <<entry, env_key, suspended, exc, wire, sleeps, notDone>>
    /\ UNCHANGED <<usVars, pollVars>>

\* Variant of HandleResponse with response.raise_for_status() left out: the body
\* of any response is parsed and returned.  C3_NeverRaises must tell it apart.
HandleResponse_NoStatusCheck(o) ==
    CASE o.kind = "fault"         -> [exc |-> "ConnectError", ret |-> NoneVal]
      [] o.kind = "timeout"       -> [exc |-> "TimeoutException", ret |-> NoneVal]
      [] ~o.body.valid            -> [exc |-> "JSONDecodeError", ret |-> NoneVal]
      [] OTHER                    -> [exc |-> "", ret |-> o.body.json]

\* The rest of the try body once the await has ended: the await itself raises on
\* a fault or a timeout, raise_for_status() raises on a status that is not 2xx,
\* json() raises on a body that is not JSON; otherwise the parsed body is returned.
HandleResponse(o) ==
    CASE o.kind = "fault"         -> [exc |-> "ConnectError", ret |-> NoneVal]
      [] o.kind = "timeout"       -> [exc |-> "TimeoutException", ret |-> NoneVal]
      [] ~IsSuccess(o.status)     -> [exc |-> "HTTPStatusError", ret |-> NoneVal]
      [] ~o.body.valid            -> [exc |-> "JSONDecodeError", ret |-> NoneVal]
      [] OTHER                    -> [exc |-> "", ret |-> o.body.json]

Rq_Handle ==
    /\ rq_pc = "got"
    /\ LET h == HandleResponse(net) IN
         /\ rq_exc' = h.exc
         /\ rq_ret' = h.ret
         /\ rq_pc' = IF h.exc = "" THEN "exit" ELSE "except"
    /\ UNCHANGED <<rq_method, rq_url, clientOpen, net, stdout>>
    /\ UNCHANGED <<entry, env_key, suspended, exc, wire, sleeps, notDone>>
    /\ UNCHANGED <<usVars, pollVars>>

\* The two except clauses: both log and return None; exc is the exception still
\* propagating when the handler is left ("": it was handled).
ExceptHandler(e, o) ==
    IF e = "HTTPStatusError"
    THEN [exc |-> "", ret |-> NoneVal,
          log |-> [msg |-> "Roblox API Error", status |-> o.status, err |-> ""]]
    ELSE [exc |-> "", ret |-> NoneVal,
          log |-> [msg |-> "Error making Roblox API request", status |-> 0, err |-> e]]

Rq_Except ==
    /\ rq_pc = "except"
    /\ LET h == ExceptHandler(rq_exc, net) IN
         /\ rq_exc' = h.exc
         /\ rq_ret' = h.ret
         /\ stdout' = h.log
    /\ rq_pc' = "exit"
    /\ UNCHANGED <<rq_method, rq_url, clientOpen, net>>
    /\ UNCHANGED <<entry, env_key, suspended, exc, wire, sleeps, notDone>>
    /\ UNCHANGED <<usVars, pollVars>>

\* Variant of Rq_Exit for a client opened without "async with" and closed only
\* before the return in the try body: a handled exception leaves it open.
\* C15_ClientClosed must tell it apart.
Rq_Exit_LeakOnError ==
    /\ rq_pc = "exit"
    /\ clientOpen' = IF rq_ret = NoneVal THEN clientOpen ELSE clientOpen - 1
    /\ rq_pc' = IF rq_exc = "" THEN "returned" ELSE "raised"
    /\ exc' = IF rq_exc = "" THEN exc ELSE rq_exc
    /\ UNCHANGED <<rq_method, rq_url, rq_exc, rq_ret, net, stdout>>
    /\ UNCHANGED <<entry, env_key, suspended, wire, sleeps, notDone>>
    /\ UNCHANGED <<usVars, pollVars>>

\* Leaving the async with block closes the client; then the function returns,
\* or the exception no handler took leaves it.
Rq_Exit ==
    /\ rq_pc = "exit"
    /\ clientOpen' = clientOpen - 1
    /\ rq_pc' = IF rq_exc = "" THEN "returned" ELSE "raised"
    /\ exc' = IF rq_exc = "" THEN exc ELSE rq_exc
    /\ UNCHANGED <<rq_method, rq_url, rq_exc, rq_ret, net, stdout>>
    /\ UNCHANGED <<entry, env_key, suspended, wire, sleeps, notDone>>
    /\ UNCHANGED <<usVars, pollVars>>

RqEnded == rq_pc \in {"returned", "raised"}

----------------------------------------------------------------------------
(* poll_for_results *)

\* A call of poll_for_results(api_key, operation_path, retries).
CallPoll(r) ==
    /\ poll_pc' = "loop"
    /\ poll_i' = 0
    /\ retries' = r
    /\ poll_ret' = NoneVal

\* Variant of Poll_Loop whose loop runs once more than retries.
\* C18_RequestOrder must tell it apart.
Poll_Loop_OffByOne ==
    /\ poll_pc = "loop"
    /\ IF poll_i <= retries
       THEN /\ poll_i' = poll_i + 1
            /\ poll_pc' = "await_get"
            /\ CallRequest("GET", PollUrl(operation_path))
            /\ UNCHANGED <<retries, poll_ret>>
       ELSE /\ poll_pc' = "returned"
            /\ poll_ret' = NoneVal
            /\ UNCHANGED <<poll_i, retries, rqVars>>
    /\ UNCHANGED <<entry, env_key, suspended, exc, wire, sleeps, notDone>>
    /\ UNCHANGED usVars

\* for _ in range(retries): the next iteration calls make_roblox_request with
\* "GET"; when the range is used up the function returns None.
Poll_Loop ==
    /\ poll_pc = "loop"
    /\ IF poll_i < retries
       THEN /\ poll_i' = poll_i + 1
            /\ poll_pc' = "await_get"
            /\ CallRequest("GET", PollUrl(operation_path))
            /\ UNCHANGED <<retries, poll_ret>>
       ELSE /\ poll_pc' = "returned"
            /\ poll_ret' = NoneVal
            /\ UNCHANGED <<poll_i, retries, rqVars>>
    /\ UNCHANGED <<entry, env_key, suspended, exc, wire, sleeps, notDone>>
    /\ UNCHANGED usVars

\* Variant of PollDecision that sleeps out the attempt even when the envelope is
\* done.  C4_ShortCircuit must tell it apart.
PollDecision_IgnoreDone(response_data) ==
    IF Truthy(response_data) /\ ~HasGet(response_data) THEN "raise" ELSE "sleep"

\* Variant of PollDecision that returns any mapping it gets, done or not (the
\* last envelope seen would reach the caller).  C16_NoTimedOut must tell it apart.
PollDecision_ReturnAny(response_data) ==
    IF Truthy(response_data)
    THEN IF ~HasGet(response_data) THEN "raise" ELSE "return"
    ELSE "sleep"

\* Variant of PollDecision that gives up on the first attempt without an
\* envelope: None is returned at once.  C17_FailedAttemptGoesOn must tell it apart.
PollDecision_AbortOnNone(response_data) ==
    IF response_data = NoneVal THEN "return"
    ELSE IF Truthy(response_data)
         THEN IF ~HasGet(response_data) THEN "raise"
              ELSE IF JTruthy(Get(response_data, "done")) THEN "return" ELSE "sleep"
         ELSE "sleep"

\* if response_data and response_data.get("done"): return response_data
\* else await asyncio.sleep(delay).  A truthy value without .get raises
\* AttributeError.
PollDecision(response_data) ==
    IF Truthy(response_data)
    THEN IF ~HasGet(response_data) THEN "raise"
         ELSE IF JTruthy(Get(response_data, "done")) THEN "return" ELSE "sleep"
    ELSE "sleep"

\* a mapping whose "done" is there and falsy
IsNotDone(v) == Has(v, "done") /\ ~JTruthy(Get(v, "done"))

Poll_Check ==
    /\ poll_pc = "await_get"
    /\ RqEnded
    /\ IF rq_pc = "raised"
       THEN /\ poll_pc' = "raised"
            /\ UNCHANGED <<poll_ret, sleeps, exc, notDone>>
       ELSE LET d == PollDecision(rq_ret) IN
            /\ poll_pc' = CASE d = "return" -> "returned"
                            [] d = "sleep"  -> "sleep"
                            [] OTHER        -> "raised"
            /\ poll_ret' = IF d = "return" THEN rq_ret ELSE poll_ret
            /\ sleeps' = IF d = "sleep" THEN sleeps + 1 ELSE sleeps
            /\ exc' = IF d = "raise" THEN "AttributeError" ELSE exc
            /\ notDone' = IF IsNotDone(rq_ret) THEN notDone + 1 ELSE notDone
    /\ DropRequest
    /\ UNCHANGED <<poll_i, retries>>
    /\ UNCHANGED <<entry, env_key, suspended, wire>>
    /\ UNCHANGED usVars

\* asyncio.sleep(delay) ends; back to the top of the loop.
Poll_Wake ==
    /\ poll_pc = "sleep"
    /\ poll_pc' = "loop"
    /\ UNCHANGED <<poll_i, retries, poll_ret>>
    /\ UNCHANGED <<entry, env_key, suspended, exc, wire, sleeps, notDone>>
    /\ UNCHANGED <<usVars, rqVars>>

PollEnded == poll_pc \in {"returned", "raised"}

----------------------------------------------------------------------------
(* update_script *)

EnvKeys == {[set |-> FALSE, val |-> ""], [set |-> TRUE, val |-> ""],
            [set |-> TRUE, val |-> "rbx-key"]}

\* Variant of KeyMissing that tests "api_key is None": an empty key passes.
\* C9_NoKeyNoNetwork must tell it apart.
KeyMissing_OnlyUnset(api_key) == ~api_key.set

\* not api_key: os.getenv gives None when the variable is unset
KeyMissing(api_key) == ~api_key.set \/ api_key.val = ""

\* Lines 87-107: without a key return at once, else call the executor with PATCH.
US_Start ==
    /\ us_pc = "start"
    /\ IF KeyMissing(env_key)
       THEN /\ us_pc' = "returned"
            /\ outcome' = MsgNoKey
            /\ UNCHANGED rqVars
       ELSE /\ us_pc' = "await_patch"
            /\ CallRequest("PATCH", PatchUrl)
            /\ UNCHANGED outcome
    /\ UNCHANGED operation_path
    /\ UNCHANGED <<entry, env_key, suspended, exc, wire, sleeps, notDone>>
    /\ UNCHANGED pollVars

\* Variant of AfterPatch without the test of operation_path: polling starts with
\* whatever .get("path") gave.  C10_NoPath must tell it apart.
AfterPatch_NoPathCheck(resp) ==
    IF resp.t = "None" THEN [kind |-> "return", msg |-> MsgInitFailed, path |-> ""]
    ELSE IF ~HasGet(resp) THEN [kind |-> "raise", msg |-> "", path |-> ""]
    ELSE [kind |-> "poll", msg |-> "", path |-> PyStr(Get(resp, "path"))]

\* Variant of AfterPatch without the "is None" test: the lookup of "path" is made
\* on whatever the executor returned.  C13_PatchAbsentFails must tell it apart.
AfterPatch_NoNoneCheck(resp) ==
    IF ~HasGet(resp) THEN [kind |-> "raise", msg |-> "", path |-> ""]
    ELSE IF ~JTruthy(Get(resp, "path")) THEN [kind |-> "return", msg |-> MsgNoPath, path |-> ""]
    ELSE [kind |-> "poll", msg |-> "", path |-> PyStr(Get(resp, "path"))]

\* Lines 109-118: None, a value without .get, a falsy path, or go on to poll.
\* Variant of AfterPatch with the handle kept in one place for all invocations:
\* an invocation polls the handle another invocation has already taken.
\* C14_Independent must tell it apart.
AfterPatch_SharedHandle(resp) ==
    IF resp.t = "None" THEN [kind |-> "return", msg |-> MsgInitFailed, path |-> ""]
    ELSE IF ~HasGet(resp) THEN [kind |-> "raise", msg |-> "", path |-> ""]
    ELSE IF ~JTruthy(Get(resp, "path")) THEN [kind |-> "return", msg |-> MsgNoPath, path |-> ""]
    ELSE [kind |-> "poll", msg |-> "",
          path |-> IF suspended.operation_path # "" THEN suspended.operation_path
                   ELSE PyStr(Get(resp, "path"))]

AfterPatch(resp) ==
    IF resp.t = "None" THEN [kind |-> "return", msg |-> MsgInitFailed, path |-> ""]
    ELSE IF ~HasGet(resp) THEN [kind |-> "raise", msg |-> "", path |-> ""]
    ELSE IF ~JTruthy(Get(resp, "path")) THEN [kind |-> "return", msg |-> MsgNoPath, path |-> ""]
    ELSE [kind |-> "poll", msg |-> "", path |-> PyStr(Get(resp, "path"))]

US_AfterPatch ==
    /\ us_pc = "await_patch"
    /\ RqEnded
    /\ IF rq_pc = "raised"
       THEN /\ us_pc' = "raised"
            /\ UNCHANGED <<operation_path, outcome, exc, pollVars>>
       ELSE LET a == AfterPatch(rq_ret) IN   \* patch_response is rq_ret
            /\ operation_path' = a.path
            /\ outcome' = a.msg
            /\ us_pc' = CASE a.kind = "return" -> "returned"
                          [] a.kind = "poll"   -> "await_poll"
                          [] OTHER             -> "raised"
            /\ exc' = IF a.kind = "raise" THEN "AttributeError" ELSE exc
            /\ IF a.kind = "poll" THEN CallPoll(DefaultRetries) ELSE UNCHANGED pollVars
    /\ DropRequest
    /\ UNCHANGED <<entry, env_key, suspended, wire, sleeps, notDone>>

\* Variant of Translate whose last else reports a timeout when the poller gave
\* None.  C7_PollAbsentFails must tell it apart.
Translate_NoneIsTimeout(poll_result) ==
    IF Truthy(poll_result)
    THEN IF ~HasGet(poll_result) THEN [kind |-> "raise", msg |-> ""]
         ELSE IF JTruthy(Get(poll_result, "done"))
              THEN IF Has(poll_result, "response")
                   THEN [kind |-> "return", msg |-> MsgSuccess(poll_result.response)]
                   ELSE IF Has(poll_result, "error")
                        THEN [kind |-> "return", msg |-> MsgError(poll_result.error)]
                        ELSE [kind |-> "return", msg |-> MsgNoData]
              ELSE [kind |-> "return", msg |-> MsgTimedOut]
    ELSE [kind |-> "return", msg |-> MsgTimedOut]

\* Variant of Translate that reports a timeout when a done envelope has neither
\* "response" nor "error".  C8_NoData must tell it apart.
Translate_NoDataIsTimeout(poll_result) ==
    IF Truthy(poll_result)
    THEN IF ~HasGet(poll_result) THEN [kind |-> "raise", msg |-> ""]
         ELSE IF JTruthy(Get(poll_result, "done"))
              THEN IF Has(poll_result, "response")
                   THEN [kind |-> "return", msg |-> MsgSuccess(poll_result.response)]
                   ELSE IF Has(poll_result, "error")
                        THEN [kind |-> "return", msg |-> MsgError(poll_result.error)]
                        ELSE [kind |-> "return", msg |-> MsgTimedOut]
              ELSE [kind |-> "return", msg |-> MsgTimedOut]
    ELSE [kind |-> "return", msg |-> MsgPollFailed]

\* Variant of Translate that puts the key "response" into the success message
\* instead of the value held under it.  C11_Success must tell it apart.
Translate_SuccessWithoutValue(poll_result) ==
    IF Truthy(poll_result)
    THEN IF ~HasGet(poll_result) THEN [kind |-> "raise", msg |-> ""]
         ELSE IF JTruthy(Get(poll_result, "done"))
              THEN IF Has(poll_result, "response")
                   THEN [kind |-> "return", msg |-> MsgSuccess(JStr("response"))]
                   ELSE IF Has(poll_result, "error")
                        THEN [kind |-> "return", msg |-> MsgError(poll_result.error)]
                        ELSE [kind |-> "return", msg |-> MsgNoData]
              ELSE [kind |-> "return", msg |-> MsgTimedOut]
    ELSE [kind |-> "return", msg |-> MsgPollFailed]

\* Variant of Translate without the elif on "error": a done envelope without
\* "response" is reported as having no data.  C12_Error must tell it apart.
Translate_NoErrorBranch(poll_result) ==
    IF Truthy(poll_result)
    THEN IF ~HasGet(poll_result) THEN [kind |-> "raise", msg |-> ""]
         ELSE IF JTruthy(Get(poll_result, "done"))
              THEN IF Has(poll_result, "response")
                   THEN [kind |-> "return", msg |-> MsgSuccess(poll_result.response)]
                   ELSE [kind |-> "return", msg |-> MsgNoData]
              ELSE [kind |-> "return", msg |-> MsgTimedOut]
    ELSE [kind |-> "return", msg |-> MsgPollFailed]

\* Variant of Translate that looks for "error" before "response".
\* C20_ResponseWins must tell it apart.
Translate_ErrorFirst(poll_result) ==
    IF Truthy(poll_result)
    THEN IF ~HasGet(poll_result) THEN [kind |-> "raise", msg |-> ""]
         ELSE IF JTruthy(Get(poll_result, "done"))
              THEN IF Has(poll_result, "error")
                   THEN [kind |-> "return", msg |-> MsgError(poll_result.error)]
                   ELSE IF Has(poll_result, "response")
                        THEN [kind |-> "return", msg |-> MsgSuccess(poll_result.response)]
                        ELSE [kind |-> "return", msg |-> MsgNoData]
              ELSE [kind |-> "return", msg |-> MsgTimedOut]
    ELSE [kind |-> "return", msg |-> MsgPollFailed]

\* Lines 120-132: the poll result put into words.
Translate(poll_result) ==
    IF Truthy(poll_result)
    THEN IF ~HasGet(poll_result) THEN [kind |-> "raise", msg |-> ""]
         ELSE IF JTruthy(Get(poll_result, "done"))
              THEN IF Has(poll_result, "response")
                   THEN [kind |-> "return", msg |-> MsgSuccess(poll_result.response)]
                   ELSE IF Has(poll_result, "error")
                        THEN [kind |-> "return", msg |-> MsgError(poll_result.error)]
                        ELSE [kind |-> "return", msg |-> MsgNoData]
              ELSE [kind |-> "return", msg |-> MsgTimedOut]
    ELSE [kind |-> "return", msg |-> MsgPollFailed]

US_AfterPoll ==
    /\ us_pc = "await_poll"
    /\ PollEnded
    /\ IF poll_pc = "raised"
       THEN /\ us_pc' = "raised"
            /\ UNCHANGED <<outcome, exc>>
       ELSE LET r == Translate(poll_ret) IN
            /\ us_pc' = IF r.kind = "return" THEN "returned" ELSE "raised"
            /\ outcome' = r.msg
            /\ exc' = IF r.kind = "raise" THEN "AttributeError" ELSE exc
    /\ UNCHANGED operation_path
    /\ UNCHANGED <<entry, env_key, suspended, wire, sleeps, notDone>>
    /\ UNCHANGED <<pollVars, rqVars>>

UsEnded == us_pc \in {"returned", "raised"}

----------------------------------------------------------------------------
(* The specification *)

\* The state when the caller invokes function e: only its frame exists, beside
\* the frames sec of a second invocation (NoFrames: there is none).
Start(e, key, r, m, sec) ==
    /\ entry = e
    /\ suspended = sec
    /\ env_key = key
    /\ us_pc = IF e = "update_script" THEN "start" ELSE "idle"
    /\ operation_path = (IF e = "poll_for_results" THEN "operations/123" ELSE "")
    /\ outcome = "" /\ exc = ""
    /\ poll_pc = IF e = "poll_for_results" THEN "loop" ELSE "idle"
    /\ poll_i = 0 /\ retries = r /\ poll_ret = NoneVal
    /\ rq_pc = IF e = "make_roblox_request" THEN "enter" ELSE "idle"
    /\ rq_method = m /\ rq_exc = "" /\ rq_ret = NoneVal
    /\ rq_url = (IF e = "make_roblox_request" THEN PollUrl("operations/123") ELSE "")
    /\ clientOpen = 0 /\ net = NoNet
    /\ stdout = [msg |-> "", status |-> 0, err |-> ""]
    /\ patches = 0 /\ gets = 0 /\ sleeps = 0 /\ notDone = 0

TheKey == [set |-> TRUE, val |-> "rbx-key"]

\* The host calls the tool update_script, in some environment.
InitUpdateScript ==
    \E key \in EnvKeys : Start("update_script", key, DefaultRetries, "", NoFrames)

\* poll_for_results called with a key, a path and retries (or its default).
InitPoll ==
    \E r \in (0 .. MaxRetries) \cup {DefaultRetries} :
        Start("poll_for_results", TheKey, r, "", NoFrames)

\* make_roblox_request called with a key, a url and some method string.
InitRequest ==
    \E m \in Methods : Start("make_roblox_request", TheKey, DefaultRetries, m, NoFrames)

Init == InitUpdateScript \/ InitPoll \/ InitRequest

Next ==
    \/ US_Start \/ US_AfterPatch \/ US_AfterPoll
    \/ Poll_Loop \/ Poll_Check \/ Poll_Wake
    \/ Rq_Enter \/ Rq_Dispatch \/ Net_Respond \/ Rq_Handle \/ Rq_Except \/ Rq_Exit

Spec == Init /\ [][Next]_vars

\* Two invocations of update_script on one event loop.  Coroutines give up the
\* loop only where they suspend: before their first step, while a request is
\* in flight, while the client is being closed, in asyncio.sleep, and at their
\* end.
CanYield ==
    \/ us_pc = "start"
    \/ rq_pc \in {"inflight", "exit"}
    \/ poll_pc = "sleep"
    \/ UsEnded

\* The event loop resumes the other invocation: the two sets of frames change
\* places; the environment and stdout belong to the process.
Switch ==
    /\ suspended.us_pc \notin {"idle", "returned", "raised"}
    /\ CanYield
    /\ suspended' = Frames
    /\ us_pc' = suspended.us_pc
    /\ operation_path' = suspended.operation_path
    /\ outcome' = suspended.outcome
    /\ exc' = suspended.exc
    /\ poll_pc' = suspended.poll_pc
    /\ poll_i' = suspended.poll_i
    /\ retries' = suspended.retries
    /\ poll_ret' = suspended.poll_ret
    /\ rq_pc' = suspended.rq_pc
    /\ rq_method' = suspended.rq_method
    /\ rq_url' = suspended.rq_url
    /\ rq_exc' = suspended.rq_exc
    /\ rq_ret' = suspended.rq_ret
    /\ clientOpen' = suspended.clientOpen
    /\ net' = suspended.net
    /\ patches' = suspended.patches
    /\ gets' = suspended.gets
    /\ sleeps' = suspended.sleeps
    /\ notDone' = suspended.notDone
    /\ UNCHANGED <<entry, env_key, stdout>>

\* The host calls the tool update_script twice with identical arguments.
InitPair == Start("update_script", TheKey, DefaultRetries, "", NewFrames)

NextPair == Next \/ Switch

PairSpec == InitPair /\ [][NextPair]_vars

----------------------------------------------------------------------------
(* Properties *)

\* an envelope the poller takes as finished: a mapping with a truthy "done"
IsDone(v) == HasGet(v) /\ JTruthy(Get(v, "done"))

\* the credential is unset or empty
CredentialMissing == ~env_key.set \/ env_key.val = ""

\* C1: whatever the remote answers to the PATCH and to each GET, update_script
\* ends by returning a descriptive string; no exception leaves update_script.
\* (Violated: a 2xx body that is JSON but not a mapping, such as [1], has no
\* .get, and the AttributeError leaves update_script.)
C1_AlwaysReturnsString ==
    entry = "update_script" =>
        /\ us_pc # "raised"
        /\ us_pc = "returned" => outcome # ""

\* C2: called with a method other than GET or PATCH, make_roblox_request raises
\* to its caller (it does not return None) and puts no request on the wire.
\* (Violated: the ValueError is raised inside the try and taken by
\* "except Exception", so None is returned.)
C2_UnsupportedRaises ==
    (entry = "make_roblox_request" /\ ~Supported(rq_method) /\ RqEnded) =>
        /\ rq_pc = "raised"
        /\ exc = "ValueError"
        /\ gets = 0 /\ patches = 0

\* C3: for GET and PATCH make_roblox_request never raises, whatever the network
\* gives: it returns None, or the parsed body of a response whose status is 2xx.
C3_NeverRaises ==
    (Supported(rq_method) /\ RqEnded) =>
        /\ rq_pc = "returned"
        /\ exc = ""
        /\ \/ rq_ret = NoneVal
           \/ /\ net.kind = "response"
              /\ net.status >= 200 /\ net.status <= 299
              /\ net.body.valid
              /\ rq_ret = net.body.json

\* C3 witness: a supported call has returned None after a response that is not
\* 2xx although its body was valid JSON.
C3_Witness ==
    /\ Supported(rq_method) /\ rq_pc = "returned"
    /\ net.kind = "response" /\ net.status = 404 /\ net.body.valid
    /\ rq_ret = NoneVal

\* C4: on the first attempt whose envelope is done, poll_for_results returns that
\* very envelope, with no sleep and no further GET after it; once it has returned
\* nothing more is sent or slept; so a return with an envelope after n GETs has
\* slept n - 1 times, none when attempt 1 is done.
C4_ShortCircuit ==
    /\ [][(poll_pc = "await_get" /\ rq_pc = "returned" /\ IsDone(rq_ret)) =>
            (poll_pc' = "returned" /\ poll_ret' = rq_ret
             /\ gets' = gets /\ sleeps' = sleeps)]_vars
    /\ [][poll_pc = "returned" =>
            (poll_pc' = "returned" /\ poll_ret' = poll_ret
             /\ gets' = gets /\ sleeps' = sleeps)]_vars
    /\ []((poll_pc = "returned" /\ poll_ret # NoneVal) =>
            (IsDone(poll_ret) /\ sleeps = gets - 1))

\* C4 witness: the poller has returned the done envelope of attempt 1, unslept.
C4_Witness ==
    /\ poll_pc = "returned" /\ IsDone(poll_ret)
    /\ gets = 1 /\ sleeps = 0

\* C5: when no attempt yields a done envelope, poll_for_results returns None
\* after exactly retries GETs and retries sleeps.
\* (Violated, by the defect of C1: an attempt answered by a truthy value that is
\* no mapping ends the poller with an AttributeError after fewer GETs.)
C5_ExactlyRetries ==
    (PollEnded /\ ~IsDone(poll_ret)) =>
        /\ poll_pc = "returned"
        /\ poll_ret = NoneVal
        /\ gets = retries
        /\ sleeps = retries

\* C6: the PATCH gave an operation path and all 10 polls gave an envelope with
\* done = false: update_script returns the did-not-complete message.
\* (Violated: the poller returns None and the message is MsgPollFailed.)
C6_ScenarioC ==
    (entry = "update_script" /\ us_pc = "returned"
     /\ gets = DefaultRetries /\ notDone = DefaultRetries) =>
        outcome = MsgTimedOut

\* C7: when poll_for_results has returned None, update_script ends by returning
\* "Error: Failed to poll for script update status."
C7_PollAbsentFails ==
    (entry = "update_script" /\ UsEnded /\ poll_pc = "returned" /\ poll_ret = NoneVal) =>
        /\ us_pc = "returned"
        /\ outcome = MsgPollFailed

\* C7 witness: update_script has returned after a poller that used up its budget
\* on attempts of both kinds, failed ones and not-done envelopes.
C7_Witness ==
    /\ us_pc = "returned" /\ poll_pc = "returned" /\ poll_ret = NoneVal
    /\ gets = DefaultRetries /\ notDone > 0 /\ notDone < gets
    /\ outcome = MsgPollFailed

\* a done envelope with neither "response" nor "error"
IsBare(v) == IsDone(v) /\ ~Has(v, "response") /\ ~Has(v, "error")

\* C8 as stated: a done envelope with neither "response" nor "error" gives the
\* did-not-complete message.
C8_Original ==
    (us_pc = "returned" /\ poll_pc = "returned" /\ IsBare(poll_ret)) =>
        outcome = MsgTimedOut

\* C8 as amended: a done envelope with neither "response" nor "error" makes
\* update_script return "Script update operation completed, but no response data
\* found."
C8_NoData ==
    (entry = "update_script" /\ UsEnded /\ poll_pc = "returned" /\ IsBare(poll_ret)) =>
        /\ us_pc = "returned"
        /\ outcome = MsgNoData

\* C8 witness: update_script has returned after such an envelope.
C8_Witness ==
    us_pc = "returned" /\ poll_pc = "returned" /\ IsBare(poll_ret)

\* C9: with the credential unset or empty, update_script returns the key-required
\* message and no PATCH and no GET is ever issued.
C9_NoKeyNoNetwork ==
    (entry = "update_script" /\ CredentialMissing) =>
        /\ patches = 0 /\ gets = 0 /\ rq_pc = "idle" /\ poll_pc = "idle"
        /\ us_pc \in {"start", "returned"}
        /\ us_pc = "returned" => outcome = MsgNoKey

\* C9 witness: update_script has returned with the variable set to "".
C9_Witness ==
    /\ entry = "update_script" /\ env_key.set /\ env_key.val = ""
    /\ us_pc = "returned"

\* the PATCH has returned a mapping whose "path" is missing or falsy, and
\* update_script is about to look at it
PatchNoPath ==
    /\ us_pc = "await_patch" /\ rq_pc = "returned"
    /\ HasGet(rq_ret) /\ ~JTruthy(Get(rq_ret, "path"))

\* C10 as stated: the outcome is then "Operation path not found in PATCH
\* response." and polling is not entered.
C10_Original ==
    [][PatchNoPath =>
        (us_pc' = "returned" /\ poll_pc' = "idle"
         /\ outcome' = "Operation path not found in PATCH response.")]_vars

\* C10 as amended: the outcome is then "Error: Operation path not found in PATCH
\* response.", polling is not entered and no GET is issued; and that outcome
\* is only ever a return without polling.
C10_NoPath ==
    /\ [][PatchNoPath =>
            (us_pc' = "returned" /\ poll_pc' = "idle" /\ gets' = 0
             /\ outcome' = MsgNoPath)]_vars
    /\ [](outcome = MsgNoPath => (us_pc = "returned" /\ poll_pc = "idle" /\ gets = 0))

\* C10 witness: update_script has returned that outcome after one PATCH, no GET.
C10_Witness ==
    /\ us_pc = "returned" /\ outcome = MsgNoPath
    /\ patches = 1 /\ gets = 0 /\ poll_pc = "idle"


\* C11: the PATCH gave an operation path and polling ended with a done envelope
\* that has a "response" field: update_script returns "Script updated
\* successfully! Final Response: " followed by that field as Python prints it,
\* on whichever of the attempts 1..10 the envelope came.
C11_Success ==
    (entry = "update_script" /\ UsEnded /\ poll_pc = "returned"
     /\ IsDone(poll_ret) /\ Has(poll_ret, "response")) =>
        /\ us_pc = "returned"
        /\ patches = 1 /\ operation_path # ""
        /\ gets \in 1 .. 10
        /\ poll_ret.response = JObj("status", "ok") =>
             outcome = "Script updated successfully! Final Response: {'status': 'ok'}"

\* C11 witness: success reported for an envelope that came on the tenth attempt.
C11_Witness ==
    /\ entry = "update_script" /\ us_pc = "returned" /\ poll_pc = "returned"
    /\ IsDone(poll_ret) /\ poll_ret.response = JObj("status", "ok")
    /\ gets = 10

\* C12: polling ended with a done envelope that has an "error" field and no
\* "response" field: update_script returns "Script update failed. Error: "
\* followed by the error as Python prints it.
C12_Error ==
    (entry = "update_script" /\ UsEnded /\ poll_pc = "returned"
     /\ IsDone(poll_ret) /\ Has(poll_ret, "error") /\ ~Has(poll_ret, "response")) =>
        /\ us_pc = "returned"
        /\ poll_ret.error = JObj("code", "INTERNAL") =>
             outcome = "Script update failed. Error: {'code': 'INTERNAL'}"

\* C12 witness: update_script has returned after such an envelope.
C12_Witness ==
    /\ entry = "update_script" /\ us_pc = "returned" /\ poll_pc = "returned"
    /\ IsDone(poll_ret) /\ poll_ret.error = JObj("code", "INTERNAL")
    /\ ~Has(poll_ret, "response")

\* the executor has returned None for the PATCH and update_script is about to
\* look at it
PatchAbsent ==
    us_pc = "await_patch" /\ rq_pc = "returned" /\ rq_ret = NoneVal

\* C13: when the executor returns None for the PATCH, update_script returns
\* "Error: Failed to initiate script update." without polling; and that outcome
\* is only ever a return after one PATCH and no GET.
C13_PatchAbsentFails ==
    /\ [][PatchAbsent =>
            (us_pc' = "returned" /\ poll_pc' = "idle" /\ gets' = 0
             /\ outcome' = "Error: Failed to initiate script update.")]_vars
    /\ [](outcome = "Error: Failed to initiate script update." =>
            (us_pc = "returned" /\ poll_pc = "idle" /\ patches = 1 /\ gets = 0))

\* C13 witness: update_script has returned that outcome after a PATCH the remote
\* rejected with a status that is not 2xx.
C13_Witness ==
    /\ us_pc = "returned" /\ outcome = MsgInitFailed
    /\ patches = 1 /\ gets = 0
    /\ stdout.msg = "Roblox API Error"


\* C15: every call of make_roblox_request opens one client of its own and closes
\* it on every way out: a client is open exactly while the call is between its
\* "async with" and its return; so none is open once update_script has ended, nor
\* while the poller sleeps.
C15_ClientClosed ==
    /\ clientOpen = IF rq_pc \in {"try", "inflight", "got", "except", "exit"} THEN 1 ELSE 0
    /\ RqEnded => clientOpen = 0
    /\ UsEnded => clientOpen = 0
    /\ poll_pc = "sleep" => clientOpen = 0

\* C15 witness: the poller sleeps after an attempt that ended in a transport
\* fault, and no client is open.
C15_Witness ==
    /\ poll_pc = "sleep" /\ clientOpen = 0
    /\ stdout.msg = "Error making Roblox API request"

\* C16: update_script never returns "Script update operation did not complete
\* within the allowed time.", because poll_for_results only ever returns None
\* or an envelope whose "done" is truthy.
C16_NoTimedOut ==
    /\ outcome # "Script update operation did not complete within the allowed time."
    /\ poll_pc = "returned" => (poll_ret = NoneVal \/ IsDone(poll_ret))

\* C16 witness: update_script has returned after ten polls that all gave an
\* envelope with a falsy "done".
C16_Witness ==
    /\ entry = "update_script" /\ us_pc = "returned"
    /\ gets = DefaultRetries /\ notDone = DefaultRetries
    /\ outcome # ""

\* C17: an attempt without an envelope does not end the polling: like an attempt
\* with an envelope that is not done, it is followed by the sleep and, while the
\* budget lasts, by the next attempt.
C17_FailedAttemptGoesOn ==
    /\ [][(poll_pc = "await_get" /\ rq_pc = "returned"
           /\ (rq_ret = NoneVal \/ IsNotDone(rq_ret))) =>
            (poll_pc' = "sleep" /\ sleeps' = sleeps + 1
             /\ poll_i' = poll_i /\ gets' = gets)]_vars
    /\ [][poll_pc = "sleep" => poll_pc' \in {"sleep", "loop"}]_vars
    /\ [][(poll_pc = "loop" /\ poll_i < retries) =>
            poll_pc' \in {"loop", "await_get"}]_vars

\* C17 witness: update_script reports success although an earlier poll attempt
\* failed and was logged, and no envelope before the done one was a not-done one.
C17_Witness ==
    /\ entry = "update_script" /\ us_pc = "returned"
    /\ outcome = MsgSuccess(JObj("status", "ok"))
    /\ stdout.msg # "" /\ sleeps >= 1 /\ notDone = 0

\* C18: in an invocation of update_script at most one PATCH is issued, before
\* every GET; a GET is issued only while polling, after the PATCH gave a
\* non-empty path; at most 10 GETs are issued; at most one client, hence one
\* request, is live at a time; nothing is issued once the invocation has ended.
C18_RequestOrder ==
    /\ [](entry = "update_script" =>
            /\ patches <= 1 /\ gets <= 10
            /\ clientOpen <= 1
            /\ rq_pc = "inflight" => clientOpen = 1
            /\ (gets > 0 \/ poll_pc # "idle") => (patches = 1 /\ operation_path # "")
            /\ UsEnded => rq_pc = "idle")
    /\ [][(entry = "update_script" /\ patches' # patches) =>
            (patches = 0 /\ patches' = 1 /\ gets = 0 /\ us_pc = "await_patch")]_vars
    /\ [][(entry = "update_script" /\ gets' # gets) =>
            (gets' = gets + 1 /\ patches = 1 /\ operation_path # ""
             /\ us_pc = "await_poll" /\ poll_pc = "await_get")]_vars
    /\ [][(entry = "update_script" /\ UsEnded) =>
            (patches' = patches /\ gets' = gets /\ rq_pc' = "idle")]_vars

\* C18 witness: update_script has returned after one PATCH and ten GETs, none of
\* them answered by a not-done envelope.
C18_Witness ==
    /\ entry = "update_script" /\ us_pc = "returned"
    /\ patches = 1 /\ gets = 10 /\ notDone = 0
    /\ poll_ret = NoneVal /\ rq_pc = "idle"

\* C20: a done envelope with both "response" and "error" is reported as success
\* and the error is not reported; the error message appears only for an envelope
\* without "response".
C20_ResponseWins ==
    /\ (entry = "update_script" /\ UsEnded /\ poll_pc = "returned"
        /\ IsDone(poll_ret) /\ Has(poll_ret, "response") /\ Has(poll_ret, "error")) =>
            /\ us_pc = "returned"
            /\ outcome = "Script updated successfully! Final Response: {'status': 'ok'}"
    /\ outcome = "Script update failed. Error: {'code': 'INTERNAL'}" =>
            (poll_pc = "returned" /\ Has(poll_ret, "error") /\ ~Has(poll_ret, "response"))

\* C20 witness: update_script has returned after an envelope with both fields.
C20_Witness ==
    /\ entry = "update_script" /\ us_pc = "returned" /\ poll_pc = "returned"
    /\ IsDone(poll_ret) /\ Has(poll_ret, "response") /\ Has(poll_ret, "error")


\* the invocation has come to rest: no step of the program is possible
AtRest == ~ENABLED Next

\* C19: every invocation of update_script comes to rest in a terminal outcome,
\* a returned message.
\* (Violated, by the defect of C1: after a 2xx body that is JSON but not a
\* mapping the invocation comes to rest with an AttributeError and no outcome.
\* C19_ComesToRest is what does hold.)
C19_EndsInOutcome ==
    (entry = "update_script" /\ AtRest) =>
        (us_pc = "returned" /\ outcome # "")

\* The scheduling the claim grants: an HTTP call in flight completes, a sleep
\* ends, and a coroutine that can run does run.
LiveSpec == Spec /\ WF_vars(Next)

\* Under that scheduling every invocation of update_script ends, by a return or
\* by an exception, and then stays as it is: it cannot poll forever.
C19_ComesToRest ==
    (entry = "update_script") => <>[](UsEnded /\ AtRest)


\* the invocation with frames f is past its PATCH call
PastPatch(f) == f.us_pc \in {"await_poll", "returned", "raised"}

\* the invocation with frames f sent one PATCH of its own, and each GET it has
\* under way goes to the handle in its own operation_path
OwnRequests(f) ==
    /\ f.patches <= 1
    /\ PastPatch(f) => f.patches = 1
    /\ (f.rq_pc # "idle" /\ Upper(f.rq_method) = "PATCH") => f.rq_url = PatchUrl
    /\ (f.rq_pc # "idle" /\ Upper(f.rq_method) = "GET") =>
           (f.operation_path # "" /\ f.rq_url = PollUrl(f.operation_path))

\* C14: two invocations of update_script with identical arguments, one after the
\* other or interleaved, each send their own PATCH (two in all once both are past
\* it), each take as handle the path their own PATCH returned, keep it, and send
\* every GET to it; a step of one invocation leaves the frames of the other as
\* they are (the frames only change places when the event loop resumes the other).
C14_Independent ==
    /\ [](suspended # NoFrames =>
            /\ OwnRequests(Frames)
            /\ OwnRequests(suspended)
            /\ (PastPatch(Frames) /\ PastPatch(suspended)) =>
                   patches + suspended.patches = 2)
    /\ [][suspended # NoFrames =>
            /\ (suspended' = suspended /\ us_pc = "await_patch" /\ us_pc' = "await_poll") =>
                   operation_path' = PyStr(Get(rq_ret, "path"))
            /\ (suspended' = suspended /\ operation_path # "") =>
                   operation_path' = operation_path
            /\ suspended' # suspended =>
                   (suspended' = Frames /\ Frames' = suspended)]_vars

\* both invocations are polling at once, each a handle of its own
C14_Witness ==
    /\ us_pc = "await_poll" /\ suspended.us_pc = "await_poll"
    /\ rq_pc = "inflight" /\ suspended.rq_pc = "inflight"
    /\ gets >= 2 /\ suspended.gets >= 2
    /\ patches + suspended.patches = 2
    /\ operation_path = "operations/123" /\ suspended.operation_path = "operations/456"
    /\ rq_url # suspended.rq_url

====
